---- MODULE Spec2Model ----
(***************************************************************************)
(* Slave lifecycle supervisor (src/src/slave_life.c) and fault manager     *)
(* (src/src/fault_manager.c) of data-provider-master.                      *)
(*                                                                         *)
(* The daemon is single threaded: every public operation, timer callback   *)
(* and RPC reply runs to completion on the main loop, so each of them is   *)
(* one atomic action here.                                                 *)
(***************************************************************************)
EXTENDS Integers, Sequences, FiniteSets, TLC

(* ------------------------------------------------------------------ *)
(* Bounds of the model                                                *)
(* ------------------------------------------------------------------ *)
Names == {"s1", "s2"}          \* slave names handed to slave_create
MaxRefcnt == 3                 \* cap on slave_node.refcnt
MaxInstance == 1               \* cap on slave_node.loaded_instance
MaxPending == 1                \* cap on the pause and resume requests awaiting their ack
MaxNest == 2                   \* cap on deactivate_all_refcnt
MaxUnder == 1                  \* cap on how far deactivate_all_refcnt goes below zero
MaxPackage == 2                \* cap on slave_node.loaded_package
MaxEvents == 3                 \* cap on the callbacks registered on one slave

(* ------------------------------------------------------------------ *)
(* Program constants                                                  *)
(* ------------------------------------------------------------------ *)
SLAVE_RELAUNCH_COUNT == 2      \* conf.h tunable, read at slave_life.c:183 and :557
SLAVE_MAX_LOAD == 2            \* conf.h tunable, read at slave_life.c:844 and :1163
DEBUG_MODE == FALSE            \* conf.h tunable, read at slave_life.c:552
USE_ECORE_TIME_GET == TRUE     \* build switch _USE_ECORE_TIME_GET, slave_life.c:838
DEFAULT_ABI == "c"             \* conf.h tunable, read at slave_life.c:1162

NoPid == "none"                \* (pid_t)-1
PidErr == "aul_error"          \* a retryable AUL_R_E* code left in slave->pid (negative, not -1)
PidProc == "process"           \* a pid > 0 returned by aul_launch_app
AulResults == {"OK", "RETRY", "FATAL"}

SlaveStates ==
  {"RequestedLaunch", "RequestedTerminate", "Terminated", "RequestedPause",
   "RequestedResume", "Paused", "Resumed"}

\* enum slave_event
EventKinds == {"ACTIVATE", "DELETE", "DEACTIVATE", "PAUSE", "RESUME", "FAULT"}

VARIABLES
  slave_list,             \* s_info.slave_list of slave_life.c: names in insertion order
  node,                   \* name -> struct slave_node (status "free": no such record)
  deactivate_all_refcnt,  \* s_info.deactivate_all_refcnt
  call_list,              \* s_info.call_list of fault_manager.c
  fault_mark_count,       \* s_info.fault_mark_count
  now,                    \* util_timestamp() source for fault call records
  last,                   \* history: the operation that produced this state, with its result
  bulk,                   \* history: the bulk quiesce in progress (see NoBulk)
  call_mark               \* history: the call list as the last fault_func_call found it

vars == <<slave_list, node, deactivate_all_refcnt, call_list, fault_mark_count, now, last,
          bulk, call_mark>>

(* ------------------------------------------------------------------ *)
(* struct slave_node                                                  *)
(* ------------------------------------------------------------------ *)
\* calloc'ed record before create_slave_node fills it in; also stands for "no record".
\* status: "free" (not allocated), "reg" (allocated, in slave_list),
\*         "leak" (allocated, taken out of slave_list without being destroyed).
\* rpc_pause / rpc_resume: pause / resume requests queued by slave_rpc_async_request
\* whose reply callback (pause_cb / resume_cb) has not run yet.
\* hello: a process launched for this slave has not delivered its hello yet.
\* fault_count: the increments of slave->fault_count made by the handler that is
\* running; Store clears it, since nothing in these files reads the total.
\* orphaned: the timer kinds of which the running handler has left an armed timer of
\* this record out of its handle field, by writing a new timer over it (cleared by
\* Store as well).
\* invoked: the event kinds whose callbacks the running handler has called (cleared by
\* Store as well).
\* event_list: the six callback lists, by event kind; a callback is named by the
\* number of its registration on this record, counted in event_seq.
\* launch_tries / retry_fails (history): the calls of aul_launch_app, and those of them
\* that failed with a retryable code, since the slave_activate that started the launch
\* in progress; both are 0 when no launch is in progress.
NullNode ==
  [status |-> "free", secured |-> FALSE, refcnt |-> 0, critical_fault_count |-> 0,
   state |-> "Terminated", loaded_instance |-> 0,
   reactivate_instances |-> FALSE, reactivate_slave |-> FALSE, pid |-> NoPid,
   ttl_timer |-> FALSE, activate_timer |-> FALSE, relaunch_timer |-> FALSE,
   relaunch_count |-> 0, rpc_pause |-> 0, rpc_resume |-> 0, hello |-> FALSE,
   abi |-> "", network |-> 0, loaded_package |-> 0,
   launch_tries |-> 0, retry_fails |-> 0,
   event_list |-> [k \in EventKinds |-> <<>>], event_seq |-> 0, fault_count |-> 0,
   invoked |-> {}, orphaned |-> {}]

create_slave_node(is_secured, abi, network) ==
  [NullNode EXCEPT !.status = "reg", !.secured = is_secured, !.pid = NoPid,
                   !.state = "Terminated", !.relaunch_count = SLAVE_RELAUNCH_COUNT,
                   !.abi = abi, !.network = network]

\* destroy_slave_node: refuses while the record still has a pid.
destroy_slave_node(n) ==
  IF n.pid # NoPid THEN n ELSE NullNode

slave_ref(n) == [n EXCEPT !.refcnt = @ + 1]

\* slave_unref: ptr is FALSE when the C function returns NULL.
slave_unref(n) ==
  IF n.refcnt = 0 THEN [n |-> n, ptr |-> FALSE]
  ELSE LET m == [n EXCEPT !.refcnt = @ - 1]
       IN IF m.refcnt = 0 THEN [n |-> destroy_slave_node(m), ptr |-> FALSE]
          ELSE [n |-> m, ptr |-> TRUE]

slave_is_activated(n) ==
  n.state \notin {"RequestedTerminate", "Terminated"}

\* Allocation failures (calloc, strdup, bundle_create, ecore_timer_add, packet_create)
\* are not part of the model: every such call succeeds.

\* The value aul_launch_app leaves in slave->pid after the launcher-result switch of
\* slave_activate.
LaunchPid(aul) ==
  CASE aul = "FATAL" -> NoPid
    [] aul = "RETRY" -> PidErr
    [] OTHER -> PidProc

\* slave_activate without the relaunch request it leaves on a terminating slave.
slave_activate_no_flag(n, aul) ==
  IF n.pid # NoPid THEN [n |-> n, ret |-> "ALREADY"]
  ELSE IF n.state = "RequestedLaunch" THEN [n |-> n, ret |-> "ALREADY"]
  ELSE
    [n |-> slave_ref([n EXCEPT !.relaunch_count = SLAVE_RELAUNCH_COUNT,
                               !.pid = LaunchPid(aul),
                               !.hello = @ \/ (aul # "FATAL"),
                               !.relaunch_timer = @ \/ (aul = "RETRY"),
                               !.activate_timer = TRUE,
                               !.launch_tries = 1,
                               !.retry_fails = IF aul = "RETRY" THEN 1 ELSE 0,
                               !.state = "RequestedLaunch"]),
     ret |-> "SUCCESS"]

\* slave_activate that looks at the pid only, not at a launch still in progress.
slave_activate_pid_only(n, aul) ==
  IF n.pid # NoPid THEN
    [n |-> IF n.state = "RequestedTerminate"
              THEN [n EXCEPT !.reactivate_slave = TRUE] ELSE n,
     ret |-> "ALREADY"]
  ELSE
    [n |-> slave_ref([n EXCEPT !.relaunch_count = SLAVE_RELAUNCH_COUNT,
                               !.pid = LaunchPid(aul),
                               !.hello = @ \/ (aul # "FATAL"),
                               !.relaunch_timer = @ \/ (aul = "RETRY"),
                               !.activate_timer = TRUE,
                               !.launch_tries = 1,
                               !.retry_fails = IF aul = "RETRY" THEN 1 ELSE 0,
                               !.state = "RequestedLaunch"]),
     ret |-> "SUCCESS"]

slave_activate(n, aul) ==
  IF n.pid # NoPid THEN
    [n |-> IF n.state = "RequestedTerminate"
              THEN [n EXCEPT !.reactivate_slave = TRUE] ELSE n,
     ret |-> "ALREADY"]
  ELSE IF n.state = "RequestedLaunch" THEN [n |-> n, ret |-> "ALREADY"]
  ELSE IF DEBUG_MODE THEN
    [n |-> slave_ref([n EXCEPT !.state = "RequestedLaunch"]), ret |-> "SUCCESS"]
  ELSE
    [n |-> slave_ref([n EXCEPT !.relaunch_count = SLAVE_RELAUNCH_COUNT,
                               !.pid = LaunchPid(aul),
                               !.hello = @ \/ (aul # "FATAL"),
                               !.relaunch_timer = @ \/ (aul = "RETRY"),
                               !.activate_timer = TRUE,
                               !.orphaned =
                                 @ \cup (IF n.relaunch_timer /\ aul = "RETRY"
                                           THEN {"relaunch"} ELSE {})
                                   \cup (IF n.activate_timer THEN {"activate"} ELSE {}),
                               !.launch_tries = 1,
                               !.retry_fails = IF aul = "RETRY" THEN 1 ELSE 0,
                               !.state = "RequestedLaunch"]),
     ret |-> "SUCCESS"]

\* invoke_slave_fault_handler: fault callbacks, both reactivation flags cleared, a
\* terminate signal to the pid when there is one.
invoke_slave_fault_handler(n) ==
  [n EXCEPT !.fault_count = @ + 1,
            !.reactivate_slave = FALSE, !.reactivate_instances = FALSE]

relaunch_timer_cb(n, aul) ==
  IF ~n.activate_timer THEN
    invoke_slave_fault_handler([n EXCEPT !.relaunch_timer = FALSE])
  ELSE IF n.relaunch_count = 0 THEN
    invoke_slave_fault_handler([n EXCEPT !.activate_timer = FALSE, !.relaunch_timer = FALSE])
  ELSE CASE aul = "FATAL" ->
              invoke_slave_fault_handler(
                [n EXCEPT !.pid = NoPid, !.activate_timer = FALSE, !.relaunch_timer = FALSE,
                          !.launch_tries = @ + 1])
         [] aul = "RETRY" ->
              [n EXCEPT !.relaunch_count = @ - 1, !.pid = NoPid, !.hello = TRUE,
                        !.launch_tries = @ + 1, !.retry_fails = @ + 1]
         [] OTHER ->
              [n EXCEPT !.pid = PidProc, !.relaunch_timer = FALSE, !.hello = TRUE,
                        !.launch_tries = @ + 1]

\* slave_pause / slave_resume: ret is the LB_STATUS the C function returns.
slave_pause(n) ==
  IF n.state \in {"RequestedLaunch", "RequestedTerminate", "Terminated"}
    THEN [n |-> n, ret |-> "INVALID"]
  ELSE IF n.state \in {"Paused", "RequestedPause"} THEN [n |-> n, ret |-> "SUCCESS"]
  ELSE [n |-> [n EXCEPT !.state = "RequestedPause", !.rpc_pause = @ + 1], ret |-> "SUCCESS"]

\* slave_resume that short-circuits only on a request already in flight.
slave_resume_resend(n) ==
  IF n.state \in {"RequestedLaunch", "RequestedTerminate", "Terminated"}
    THEN [n |-> n, ret |-> "INVALID"]
  ELSE IF n.state = "RequestedResume" THEN [n |-> n, ret |-> "SUCCESS"]
  ELSE [n |-> [n EXCEPT !.state = "RequestedResume", !.rpc_resume = @ + 1], ret |-> "SUCCESS"]

slave_resume(n) ==
  IF n.state \in {"RequestedLaunch", "RequestedTerminate", "Terminated"}
    THEN [n |-> n, ret |-> "INVALID"]
  ELSE IF n.state \in {"Resumed", "RequestedResume"} THEN [n |-> n, ret |-> "SUCCESS"]
  ELSE [n |-> [n EXCEPT !.state = "RequestedResume", !.rpc_resume = @ + 1], ret |-> "SUCCESS"]

\* Reply to a pause request. ack: "ok" (status 0), "refused" (non-zero status or a
\* packet that does not parse), "nopacket" (the request failed).
pause_cb(n, ack) ==
  IF n.state = "RequestedTerminate" THEN n
  ELSE IF ack = "nopacket" THEN [n EXCEPT !.state = "Resumed"]
  ELSE IF ack = "ok" THEN [n EXCEPT !.state = "Paused", !.invoked = @ \cup {"PAUSE"}]
  ELSE n

\* resume_cb without the test for a terminating slave.
resume_cb_late(n, ack) ==
  IF ack = "nopacket" THEN [n EXCEPT !.state = "Paused"]
  ELSE IF ack = "ok" THEN [n EXCEPT !.state = "Resumed", !.invoked = @ \cup {"RESUME"}]
  ELSE n

resume_cb(n, ack) ==
  IF n.state = "RequestedTerminate" THEN n
  ELSE IF ack = "nopacket" THEN [n EXCEPT !.state = "Paused"]
  ELSE IF ack = "ok" THEN [n EXCEPT !.state = "Resumed", !.invoked = @ \cup {"RESUME"}]
  ELSE n

\* slave_activated that leaves a pending relaunch timer alone.
slave_activated_keep_relaunch(n, xpaused) ==
  LET a == [n EXCEPT !.state = "Resumed"]
      b == IF xpaused THEN slave_pause(a).n ELSE a
  IN [b EXCEPT !.ttl_timer = IF b.secured THEN TRUE ELSE @,
               !.reactivate_slave = FALSE, !.reactivate_instances = FALSE,
               !.activate_timer = FALSE,
               !.launch_tries = 0, !.retry_fails = 0]

\* slave_activated that asks for the pause before it has set the state.
slave_activated_pause_first(n, xpaused) ==
  LET a == IF xpaused THEN slave_pause(n).n ELSE n
      b == IF a.state = "RequestedPause" THEN a ELSE [a EXCEPT !.state = "Resumed"]
  IN [b EXCEPT !.ttl_timer = IF b.secured THEN TRUE ELSE @,
               !.invoked = @ \cup {"ACTIVATE"},
               !.reactivate_slave = FALSE, !.reactivate_instances = FALSE,
               !.activate_timer = FALSE, !.relaunch_timer = FALSE,
               !.launch_tries = 0, !.retry_fails = 0]

\* slave_activated, reached from the hello packet. xpaused is xmonitor_is_paused().
slave_activated(n, xpaused) ==
  LET a == [n EXCEPT !.state = "Resumed"]
      b == IF xpaused THEN slave_pause(a).n ELSE a
  IN [b EXCEPT !.ttl_timer = IF b.secured THEN TRUE ELSE @,
               !.orphaned = @ \cup (IF b.secured /\ b.ttl_timer THEN {"ttl"} ELSE {}),
               !.invoked = @ \cup {"ACTIVATE"},
               !.reactivate_slave = FALSE, !.reactivate_instances = FALSE,
               !.activate_timer = FALSE, !.relaunch_timer = FALSE,
               !.launch_tries = 0, !.retry_fails = 0]

\* slave_deactivated. votes: how many deactivate callbacks returned
\* SLAVE_NEED_TO_REACTIVATE; aul: the launcher's answer if the slave is launched again.
slave_deactivated(n, votes, aul) ==
  LET a == [n EXCEPT !.pid = NoPid, !.state = "Terminated", !.ttl_timer = FALSE,
                     !.activate_timer = FALSE, !.relaunch_timer = FALSE, !.hello = FALSE,
                     !.launch_tries = 0, !.retry_fails = 0]
      u == slave_unref(a)
  IN IF ~u.ptr THEN u
     ELSE IF votes > 0 /\ u.n.reactivate_slave
       THEN [n |-> slave_activate(u.n, aul).n, ptr |-> TRUE]
     ELSE IF u.n.loaded_instance = 0 THEN slave_unref(u.n)
     ELSE u

\* invoke_deactivate_cb over the list l of a record whose callbacks may let go of a
\* reference: ret[c] is what callback c returns, drop[c] whether it calls slave_unref
\* on the slave it is handed. w is the walk so far: the record, whether it still
\* exists (ptr), the callbacks called, the SLAVE_NEED_TO_REACTIVATE answers counted,
\* and freed, which is set when the loop goes on to a callback of a record that no
\* longer exists or looks the event up in the list of such a record.
RECURSIVE invoke_deactivate_cb(_, _, _, _)
invoke_deactivate_cb(l, ret, drop, w) ==
  IF l = <<>> THEN w
  ELSE LET c == Head(l)
           u == IF w.ptr /\ drop[c] THEN slave_unref(w.n) ELSE [n |-> w.n, ptr |-> w.ptr]
           kept == IF u.ptr /\ ret[c] < 0
                     THEN [u.n EXCEPT !.event_list["DEACTIVATE"] =
                                        SelectSeq(@, LAMBDA e : e # c)]
                     ELSE u.n
       IN invoke_deactivate_cb(Tail(l), ret, drop,
            [n |-> kept, ptr |-> u.ptr,
             called |-> Append(w.called, c),
             reactivate |-> w.reactivate + (IF ret[c] = 1 THEN 1 ELSE 0),
             freed |-> w.freed \/ ~w.ptr \/ (~u.ptr /\ ret[c] < 0)])

\* slave_deactivated with the deactivate callbacks run one by one. After the loop the
\* function calls slave_unref on the pointer it was given, whether or not the record
\* is still there.
slave_deactivated_cbs(n, ret, drop, aul) ==
  LET a == [n EXCEPT !.pid = NoPid, !.state = "Terminated", !.ttl_timer = FALSE,
                     !.activate_timer = FALSE, !.relaunch_timer = FALSE]
      w == invoke_deactivate_cb(a.event_list["DEACTIVATE"], ret, drop,
             [n |-> a, ptr |-> TRUE, called |-> <<>>, reactivate |-> 0, freed |-> FALSE])
  IN IF w.ptr
       THEN LET r == slave_deactivated(w.n, w.reactivate, aul)
            IN [n |-> r.n, ptr |-> r.ptr, called |-> w.called, freed |-> FALSE]
       ELSE [n |-> w.n, ptr |-> FALSE, called |-> w.called, freed |-> TRUE]

\* slave_deactivate. term: whether aul_terminate_pid succeeds ("ok") or fails ("fail").
slave_deactivate(n, term, votes, aul) ==
  IF ~slave_is_activated(n) THEN
    IF n.loaded_instance = 0 THEN slave_unref(n) ELSE [n |-> n, ptr |-> TRUE]
  ELSE LET a == [n EXCEPT !.state = "RequestedTerminate"]
       IN IF a.pid = PidProc /\ term = "fail"
            THEN slave_deactivated(a, votes, aul)
            ELSE [n |-> a, ptr |-> TRUE]

\* slave_ttl_cb that does not ask for the instances to be recovered.
slave_ttl_cb_plain(n, term, votes, aul) ==
  slave_deactivate([n EXCEPT !.ttl_timer = FALSE, !.reactivate_slave = FALSE],
                   term, votes, aul)

\* slave_ttl_cb: the handle is cleared first, then the slave is cycled.
slave_ttl_cb(n, term, votes, aul) ==
  slave_deactivate([n EXCEPT !.ttl_timer = FALSE, !.reactivate_slave = FALSE,
                             !.reactivate_instances = TRUE], term, votes, aul)

\* slave_pid(slave) > 0: the record holds the pid of a process, which the fault paths
\* send a terminate signal to.
HasProcess(n) == n.pid = PidProc

\* activate_timer_cb that leaves the reactivation flags as they are.
activate_timer_cb_keep_flags(n, votes, aul) ==
  slave_deactivated([n EXCEPT !.relaunch_timer = FALSE, !.activate_timer = FALSE],
                    votes, aul)

\* activate_timer_cb: no hello within SLAVE_ACTIVATE_TIME.
activate_timer_cb(n, votes, aul) ==
  slave_deactivated([n EXCEPT !.relaunch_timer = FALSE, !.reactivate_slave = FALSE,
                              !.reactivate_instances = FALSE, !.activate_timer = FALSE],
                    votes, aul)

\* The reactivation decision of slave_deactivated_by_fault. fast: the crash came less
\* than MINIMUM_REACTIVATION_TIME after activated_at. Yields the record with its
\* critical_fault_count and both reactivation flags set.
FaultReactivation(n, fast) ==
  IF fast THEN
    LET c == n.critical_fault_count + 1
    IN IF n.loaded_instance = 0 \/ c >= SLAVE_MAX_LOAD
         THEN [n EXCEPT !.critical_fault_count = 0, !.reactivate_slave = FALSE,
                        !.reactivate_instances = FALSE]
         ELSE [n EXCEPT !.critical_fault_count = IF USE_ECORE_TIME_GET THEN 0 ELSE c,
                        !.reactivate_slave = TRUE, !.reactivate_instances = TRUE]
  ELSE [n EXCEPT !.critical_fault_count = IF USE_ECORE_TIME_GET THEN @ ELSE 0,
                 !.reactivate_slave = TRUE, !.reactivate_instances = TRUE]

slave_deactivated_by_fault(n, fast, votes, aul) ==
  IF ~slave_is_activated(n) THEN
    IF n.loaded_instance = 0 THEN slave_unref(n) ELSE [n |-> n, ptr |-> TRUE]
  ELSE slave_deactivated(FaultReactivation(n, fast), votes, aul)

slave_load_instance(n) == [n EXCEPT !.loaded_instance = @ + 1]

\* slave_unload_instance that deactivates without touching the reactivation flags.
slave_unload_instance_keep_flags(n, term, votes, aul) ==
  IF n.loaded_instance = 0 THEN [n |-> n, ptr |-> TRUE]
  ELSE LET a == [n EXCEPT !.loaded_instance = @ - 1]
       IN IF a.loaded_instance = 0 /\ slave_is_activated(a)
            THEN slave_deactivate(a, term, votes, aul)
            ELSE [n |-> a, ptr |-> TRUE]

slave_unload_instance(n, term, votes, aul) ==
  IF n.loaded_instance = 0 THEN [n |-> n, ptr |-> TRUE]
  ELSE LET a == [n EXCEPT !.loaded_instance = @ - 1]
       IN IF a.loaded_instance = 0 /\ slave_is_activated(a)
            THEN slave_deactivate([a EXCEPT !.reactivate_slave = FALSE,
                                            !.reactivate_instances = FALSE],
                                  term, votes, aul)
            ELSE [n |-> a, ptr |-> TRUE]

slave_set_pid(n, pid) == [n EXCEPT !.pid = pid]

\* slave_event_callback_add that puts the new callback at the tail of its list.
slave_event_callback_add_tail(n, event) ==
  [n EXCEPT !.event_seq = @ + 1,
            !.event_list[event] = Append(@, n.event_seq + 1)]

\* slave_event_callback_add: eina_list_prepend on the list of the event kind.
slave_event_callback_add(n, event) ==
  [n EXCEPT !.event_seq = @ + 1,
            !.event_list[event] = <<n.event_seq + 1>> \o @]

\* The loop shared by invoke_activate_cb, invoke_delete_cb, invoke_deactivate_cb,
\* invoke_paused_cb, invoke_resumed_cb and invoke_fault_cb over the list l. ret[c] is
\* what callback c of the list returns. Yields the list the loop leaves and the callbacks in the
\* order it called them.
RECURSIVE invoke_cb(_, _)
invoke_cb(l, ret) ==
  IF l = <<>> THEN [list |-> <<>>, called |-> <<>>]
  ELSE LET w == invoke_cb(Tail(l), ret)
       IN [list |-> IF ret[Head(l)] < 0 THEN w.list ELSE <<Head(l)>> \o w.list,
           called |-> <<Head(l)>> \o w.called]

slave_load_package(n) == [n EXCEPT !.loaded_package = @ + 1]

slave_unload_package(n) ==
  IF n.loaded_package = 0 THEN n ELSE [n EXCEPT !.loaded_package = @ - 1]

(* ------------------------------------------------------------------ *)
(* The registry                                                       *)
(* ------------------------------------------------------------------ *)
RECURSIVE RemoveName(_, _)
\* eina_list_remove: drops the first occurrence of the name, if any.
RemoveName(l, s) ==
  IF l = <<>> THEN <<>>
  ELSE IF Head(l) = s THEN Tail(l)
  ELSE <<Head(l)>> \o RemoveName(Tail(l), s)

InList(l, s) == \E i \in 1..Len(l) : l[i] = s

\* A lookup that never matches (names compared by address instead of by content).
find_slave_miss(s) == FALSE

\* find_slave / slave_find_by_name
find_slave(s) == InList(slave_list, s)

\* The ABI tags slaves are created with and looked up by.
Abis == {"c", "C", "html"}

Lower(a) == IF a = "C" THEN "c" ELSE a

\* strcasecmp: 0 when the two strings are equal ignoring case.
strcasecmp(a, b) == IF Lower(a) = Lower(b) THEN 0 ELSE 1

\* slave_find_available that also hands out a slave about to be deleted.
RECURSIVE slave_find_available_doomed(_, _, _, _)
slave_find_available_doomed(l, abi, secured, network) ==
  IF l = <<>> THEN "NULL"
  ELSE LET slave == node[Head(l)]
           rest == slave_find_available_doomed(Tail(l), abi, secured, network)
       IN IF slave.secured # secured THEN rest
          ELSE IF strcasecmp(slave.abi, abi) # 0 THEN rest
          ELSE IF slave.secured THEN
            IF slave.loaded_package = 0 THEN Head(l) ELSE rest
          ELSE IF slave.network = network THEN
            IF strcasecmp(abi, DEFAULT_ABI) = 0 THEN
              IF slave.loaded_package < SLAVE_MAX_LOAD THEN Head(l) ELSE rest
            ELSE Head(l)
          ELSE rest

\* slave_find_available that hands out a secured slave whatever it has loaded.
RECURSIVE slave_find_available_shared(_, _, _, _)
slave_find_available_shared(l, abi, secured, network) ==
  IF l = <<>> THEN "NULL"
  ELSE LET slave == node[Head(l)]
           rest == slave_find_available_shared(Tail(l), abi, secured, network)
       IN IF slave.secured # secured THEN rest
          ELSE IF slave.state = "RequestedTerminate" /\ slave.loaded_instance = 0 THEN rest
          ELSE IF strcasecmp(slave.abi, abi) # 0 THEN rest
          ELSE IF slave.secured THEN Head(l)
          ELSE IF slave.network = network THEN
            IF strcasecmp(abi, DEFAULT_ABI) = 0 THEN
              IF slave.loaded_package < SLAVE_MAX_LOAD THEN Head(l) ELSE rest
            ELSE Head(l)
          ELSE rest

\* slave_find_available over the list l: the name of the record returned, "NULL" for
\* none.
RECURSIVE slave_find_available(_, _, _, _)
slave_find_available(l, abi, secured, network) ==
  IF l = <<>> THEN "NULL"
  ELSE LET slave == node[Head(l)]
           rest == slave_find_available(Tail(l), abi, secured, network)
       IN IF slave.secured # secured THEN rest
          ELSE IF slave.state = "RequestedTerminate" /\ slave.loaded_instance = 0 THEN rest
          ELSE IF strcasecmp(slave.abi, abi) # 0 THEN rest
          ELSE IF slave.secured THEN
            IF slave.loaded_package = 0 THEN Head(l) ELSE rest
          ELSE IF slave.network = network THEN
            IF strcasecmp(abi, DEFAULT_ABI) = 0 THEN
              IF slave.loaded_package < SLAVE_MAX_LOAD THEN Head(l) ELSE rest
            ELSE Head(l)
          ELSE rest

\* The counters of a record stay inside the model's bounds.
InBounds(n) ==
  /\ n.refcnt <= MaxRefcnt
  /\ n.loaded_instance <= MaxInstance
  /\ n.rpc_pause + n.rpc_resume <= MaxPending
  /\ n.loaded_package <= MaxPackage
  /\ n.event_seq <= MaxEvents

\* Writes back the record of slave s after an operation on it; a destroyed record has
\* left slave_list (destroy_slave_node).
Store(s, n) ==
  /\ InBounds(n)
  /\ node' = [node EXCEPT ![s] = [n EXCEPT !.fault_count = 0, !.invoked = {},
                                             !.orphaned = {}]]
  /\ slave_list' = IF n.status = "free" THEN RemoveName(slave_list, s) ELSE slave_list

\* bulk: phase is "quiesced" from the slave_deactivate_all that made a pass until its
\* release, "released" after the slave_activate_all that released it, "idle" otherwise;
\* before is the set of active slaves that pass found; outstanding counts the
\* slave_deactivate_all calls not yet released by a slave_activate_all.
NoBulk == [phase |-> "idle", before |-> {}, outstanding |-> 0]

\* call_mark: list and count are call_list and fault_mark_count as the last
\* fault_func_call found them, s and site its arguments; returned is TRUE in the state
\* a fault_func_ret with the same arguments produces directly after that call.
NoMark == [list |-> <<>>, count |-> 0, s |-> "", site |-> <<>>, returned |-> FALSE]

\* An operation other than a bulk one, an exit notice or a hello ends the comparison
\* of a bulk round trip.
OtherOp == bulk' = [bulk EXCEPT !.phase = "idle", !.before = {}]

\* Exit notices and hellos are what a bulk round trip waits for.
Notice == UNCHANGED bulk

FaultUnchanged ==
  /\ UNCHANGED <<call_list, fault_mark_count, now>>
  /\ call_mark' = NoMark

Votes == 0..1
TermResults == {"ok", "fail"}
Acks == {"ok", "refused", "nopacket"}

\* What a slave_deactivate call needs from outside: the result of aul_terminate_pid
\* and, if that fails (slave_deactivated runs at once), the deactivate callbacks' votes
\* and the launcher's answer.
DeactivateInputs ==
  {<<"ok", 0, "OK">>} \cup {<<"fail", v, aul>> : v \in Votes, aul \in AulResults}

\* What slave_deactivated needs from outside: the votes and, when a vote asks for
\* reactivation, the launcher's answer.
ExitInputs ==
  {<<0, "OK">>} \cup {<<1, aul>> : aul \in AulResults}

Init ==
  /\ slave_list = <<>>
  /\ node = [s \in Names |-> NullNode]
  /\ deactivate_all_refcnt = 0
  /\ call_list = <<>>
  /\ fault_mark_count = 0
  /\ now = 0
  /\ last = [op |-> "init", s |-> "", ret |-> ""]
  /\ bulk = NoBulk
  /\ call_mark = NoMark

(* ------------------------------------------------------------------ *)
(* Operations of slave_life.c                                         *)
(* ------------------------------------------------------------------ *)
SlaveCreate(s, is_secured, abi, network) ==
  /\ node[s].status # "leak"
  /\ IF find_slave(s)
       THEN UNCHANGED <<node, slave_list>>
       ELSE /\ node' = [node EXCEPT
                          ![s] = slave_ref(create_slave_node(is_secured, abi, network))]
            /\ slave_list' = Append(slave_list, s)
  /\ last' = [op |-> "slave_create", s |-> s, ret |-> "ptr", created |-> ~find_slave(s)]
  /\ UNCHANGED deactivate_all_refcnt
  /\ FaultUnchanged
  /\ OtherOp

SlaveActivate(s, aul) ==
  /\ find_slave(s)
  /\ LET r == slave_activate(node[s], aul)
     IN /\ Store(s, r.n)
        /\ last' = [op |-> "slave_activate", s |-> s, ret |-> r.ret, aul |-> aul,
                    launched |-> r.ret = "SUCCESS" /\ ~DEBUG_MODE,
                    orphaned |-> r.n.orphaned,
                    fault_count |-> r.n.fault_count]
  /\ UNCHANGED deactivate_all_refcnt
  /\ FaultUnchanged
  /\ OtherOp

\* The pid a hello packet reports for its sender.
HelloPids == {PidProc}

\* slave_set_pid called on its own, on a record in any state.
SlaveSetPid(s, pid) ==
  /\ find_slave(s)
  /\ Store(s, slave_set_pid(node[s], pid))
  /\ last' = [op |-> "slave_set_pid", s |-> s, ret |-> "SUCCESS"]
  /\ UNCHANGED deactivate_all_refcnt
  /\ FaultUnchanged
  /\ OtherOp

\* The hello packet of a process launched for the slave: the record takes the pid of
\* the sender (slave_set_pid) and the handshake completes (slave_activated). last keeps
\* the state the hello found the slave in (from), xmonitor_is_paused() and how many
\* times each registered activate callback was called (invoke_activate_cb runs once).
SlaveActivated(s, pid, xpaused) ==
  /\ find_slave(s)
  /\ node[s].hello
  /\ LET n == slave_activated(slave_set_pid(node[s], pid), xpaused)
     IN /\ Store(s, [n EXCEPT !.hello = FALSE])
        /\ last' = [op |-> "slave_activated", s |-> s, ret |-> "SUCCESS",
                    from |-> node[s].state, xpaused |-> xpaused, activate_cb |-> 1,
                    orphaned |-> n.orphaned, invoked |-> n.invoked]
  /\ UNCHANGED deactivate_all_refcnt
  /\ FaultUnchanged
  /\ Notice

PtrRet(r) == IF r.ptr THEN "ptr" ELSE "NULL"

SlaveDeactivate(s, term, votes, aul) ==
  /\ find_slave(s)
  /\ LET r == slave_deactivate(node[s], term, votes, aul)
     IN /\ Store(s, r.n)
        /\ last' = [op |-> "slave_deactivate", s |-> s, ret |-> PtrRet(r)]
  /\ UNCHANGED deactivate_all_refcnt
  /\ FaultUnchanged
  /\ OtherOp

\* The exit notice of the slave's process.
SlaveDeactivated(s, votes, aul) ==
  /\ find_slave(s)
  /\ node[s].pid = PidProc
  /\ LET r == slave_deactivated(node[s], votes, aul)
     IN /\ Store(s, r.n)
        /\ last' = [op |-> "slave_deactivated", s |-> s, ret |-> PtrRet(r),
                    votes |-> votes]
  /\ UNCHANGED deactivate_all_refcnt
  /\ FaultUnchanged
  /\ Notice

\* The exit notice of a slave whose deactivate callbacks are registered ones; last
\* keeps what each did, the callbacks called, the first callback after which the
\* record was gone (0 for none) and whether the record was used after that.
SlaveDeactivatedCbs(s, ret, drop, aul) ==
  /\ find_slave(s)
  /\ node[s].pid = PidProc
  /\ LET r == slave_deactivated_cbs(node[s], ret, drop, aul)
     IN /\ Store(s, r.n)
        /\ last' = [op |-> "slave_deactivated", s |-> s, ret |-> PtrRet(r),
                    cb_ret |-> ret, drop |-> drop, called |-> r.called,
                    refcnt |-> node[s].refcnt, freed |-> r.freed]
  /\ UNCHANGED deactivate_all_refcnt
  /\ FaultUnchanged
  /\ Notice

SlaveLoadInstance(s) ==
  /\ find_slave(s)
  /\ Store(s, slave_load_instance(node[s]))
  /\ last' = [op |-> "slave_load_instance", s |-> s, ret |-> ""]
  /\ UNCHANGED deactivate_all_refcnt
  /\ FaultUnchanged
  /\ OtherOp

SlaveLoadPackage(s) ==
  /\ find_slave(s)
  /\ Store(s, slave_load_package(node[s]))
  /\ last' = [op |-> "slave_load_package", s |-> s, ret |-> ""]
  /\ UNCHANGED deactivate_all_refcnt
  /\ FaultUnchanged
  /\ OtherOp

SlaveUnloadPackage(s) ==
  /\ find_slave(s)
  /\ Store(s, slave_unload_package(node[s]))
  /\ last' = [op |-> "slave_unload_package", s |-> s, ret |-> ""]
  /\ UNCHANGED deactivate_all_refcnt
  /\ FaultUnchanged
  /\ OtherOp

\* A package is given to the slave the caller has just obtained: the one the preceding
\* slave_find_available returned, or the one the preceding slave_create made.
AssignPackage(s) ==
  /\ \/ last.op = "slave_find_available" /\ last.ret = s
     \/ last.op = "slave_create" /\ last.s = s /\ last.created
  /\ SlaveLoadPackage(s)

SlaveEventCallbackAdd(s, event) ==
  /\ find_slave(s)
  /\ Store(s, slave_event_callback_add(node[s], event))
  /\ last' = [op |-> "slave_event_callback_add", s |-> s, ret |-> "SUCCESS"]
  /\ UNCHANGED deactivate_all_refcnt
  /\ FaultUnchanged
  /\ OtherOp

\* What a callback can return: a negative value, 0, or SLAVE_NEED_TO_REACTIVATE.
CbReturns == {-1, 0, 1}

\* An event of the given kind reaches the record and its callbacks are run; last keeps
\* what they returned and the order they were called in.
InvokeEvent(s, event, ret) ==
  /\ find_slave(s)
  /\ node[s].event_list[event] # <<>>
  /\ LET r == invoke_cb(node[s].event_list[event], ret)
     IN /\ Store(s, [node[s] EXCEPT !.event_list[event] = r.list])
        /\ last' = [op |-> "invoke_cb", s |-> s, ret |-> ret, event |-> event,
                    called |-> r.called]
  /\ UNCHANGED deactivate_all_refcnt
  /\ FaultUnchanged
  /\ OtherOp

\* A lookup; last keeps its arguments next to the name it returned.
SlaveFindAvailable(abi, secured, network) ==
  /\ last' = [op |-> "slave_find_available", s |-> "",
              ret |-> slave_find_available(slave_list, abi, secured, network),
              abi |-> abi, secured |-> secured, network |-> network]
  /\ UNCHANGED <<node, slave_list, deactivate_all_refcnt>>
  /\ FaultUnchanged
  /\ OtherOp

SlaveUnloadInstance(s, term, votes, aul) ==
  /\ find_slave(s)
  /\ LET r == slave_unload_instance(node[s], term, votes, aul)
     IN /\ Store(s, r.n)
        /\ last' = [op |-> "slave_unload_instance", s |-> s, ret |-> PtrRet(r),
                    active |-> slave_is_activated(node[s])]
  /\ UNCHANGED deactivate_all_refcnt
  /\ FaultUnchanged
  /\ OtherOp

SlavePause(s) ==
  /\ find_slave(s)
  /\ LET r == slave_pause(node[s])
     IN /\ Store(s, r.n)
        /\ last' = [op |-> "slave_pause", s |-> s, ret |-> r.ret]
  /\ UNCHANGED deactivate_all_refcnt
  /\ FaultUnchanged
  /\ OtherOp

SlaveResume(s) ==
  /\ find_slave(s)
  /\ LET r == slave_resume(node[s])
     IN /\ Store(s, r.n)
        /\ last' = [op |-> "slave_resume", s |-> s, ret |-> r.ret]
  /\ UNCHANGED deactivate_all_refcnt
  /\ FaultUnchanged
  /\ OtherOp

\* The reply to a queued pause request reaches pause_cb.
PauseAck(s, ack) ==
  /\ node[s].status # "free"
  /\ node[s].rpc_pause > 0
  /\ LET n == pause_cb(node[s], ack)
     IN /\ Store(s, [n EXCEPT !.rpc_pause = @ - 1])
        /\ last' = [op |-> "pause_cb", s |-> s, ret |-> ack, invoked |-> n.invoked]
  /\ UNCHANGED deactivate_all_refcnt
  /\ FaultUnchanged
  /\ OtherOp

\* The reply to a queued resume request reaches resume_cb.
ResumeAck(s, ack) ==
  /\ node[s].status # "free"
  /\ node[s].rpc_resume > 0
  /\ LET n == resume_cb(node[s], ack)
     IN /\ Store(s, [n EXCEPT !.rpc_resume = @ - 1])
        /\ last' = [op |-> "resume_cb", s |-> s, ret |-> ack, invoked |-> n.invoked]
  /\ UNCHANGED deactivate_all_refcnt
  /\ FaultUnchanged
  /\ OtherOp

\* The order in which a timer callback does the things that reach outside its own
\* statements, read off its source top to bottom: "handle" is the write of none to the
\* handle field of the timer that is firing, "fault_cb" the run of the fault callbacks,
\* "signal" a call of aul_terminate_pid, "slave_deactivate" and "slave_deactivated"
\* the calls of those functions.
invoke_slave_fault_handler_order(n) ==
  <<"fault_cb">> \o (IF HasProcess(n) THEN <<"signal">> ELSE <<>>)

slave_ttl_cb_order(n) == <<"handle", "slave_deactivate">>

activate_timer_cb_order(n) ==
  <<"fault_cb", "handle">> \o (IF HasProcess(n) THEN <<"signal">> ELSE <<>>)
    \o <<"slave_deactivated">>

relaunch_timer_cb_order(n, aul) ==
  IF ~n.activate_timer \/ n.relaunch_count = 0
    THEN <<"handle">> \o invoke_slave_fault_handler_order(n)
  ELSE CASE aul = "FATAL" ->
              <<"handle">> \o invoke_slave_fault_handler_order([n EXCEPT !.pid = NoPid])
         [] aul = "RETRY" -> <<>>
         [] OTHER -> <<"handle">>

\* Timer firings: a timer calls back with its record as long as it is armed.
TtlTimerFire(s, term, votes, aul) ==
  /\ node[s].status # "free"
  /\ node[s].ttl_timer
  /\ LET r == slave_ttl_cb(node[s], term, votes, aul)
     IN /\ Store(s, r.n)
        /\ last' = [op |-> "slave_ttl_cb", s |-> s, ret |-> PtrRet(r), term |-> term,
                    order |-> slave_ttl_cb_order(node[s]),
                    signal |-> slave_is_activated(node[s]) /\ HasProcess(node[s])]
  /\ UNCHANGED deactivate_all_refcnt
  /\ FaultUnchanged
  /\ OtherOp

\* last keeps what the callback did besides changing the record: what it added to
\* fault_count, how many times it ran the fault callbacks, and whether it called
\* aul_terminate_pid.
ActivateTimerFire(s, votes, aul) ==
  /\ node[s].status # "free"
  /\ node[s].activate_timer
  /\ LET r == activate_timer_cb(node[s], votes, aul)
     IN /\ Store(s, r.n)
        /\ last' = [op |-> "activate_timer_cb", s |-> s, ret |-> PtrRet(r),
                    fault_count |-> 1, fault_cb |-> 1, term |-> HasProcess(node[s]),
                    order |-> activate_timer_cb_order(node[s])]
  /\ UNCHANGED deactivate_all_refcnt
  /\ FaultUnchanged
  /\ OtherOp

RelaunchTimerFire(s, aul) ==
  /\ node[s].status # "free"
  /\ node[s].relaunch_timer
  /\ LET n == relaunch_timer_cb(node[s], aul)
     IN /\ Store(s, n)
        /\ last' = [op |-> "relaunch_timer_cb", s |-> s,
                    ret |-> IF n.relaunch_timer THEN "RENEW" ELSE "CANCEL", aul |-> aul,
                    launched |-> n.launch_tries # node[s].launch_tries,
                    fault_count |-> n.fault_count,
                    order |-> relaunch_timer_cb_order(node[s], aul)]
  /\ UNCHANGED deactivate_all_refcnt
  /\ FaultUnchanged
  /\ OtherOp

ListSet(l) == {l[i] : i \in 1..Len(l)}

\* The record the slave_deactivate_all loop leaves behind for one slave: a record for
\* which slave_deactivate returned NULL without destroying it is taken out of
\* slave_list all the same.
AfterBulkDeactivate(r) ==
  IF r.ptr \/ r.n.status = "free" THEN r.n ELSE [r.n EXCEPT !.status = "leak"]

\* The names of the registered slaves that are active.
ActiveNames == {s \in ListSet(slave_list) : slave_is_activated(node[s])}

\* f[s]: what the slave_deactivate call on slave s gets from outside (DeactivateInputs).
SlaveDeactivateAll(reactivate, reactivate_instances, f) ==
  /\ deactivate_all_refcnt < MaxNest
  /\ deactivate_all_refcnt' = deactivate_all_refcnt + 1
  /\ IF deactivate_all_refcnt + 1 > 1
       THEN /\ UNCHANGED <<node, slave_list>>
            /\ last' = [op |-> "slave_deactivate_all", s |-> "", ret |-> "0"]
            /\ bulk' = [bulk EXCEPT !.outstanding = @ + 1]
       ELSE LET res == [s \in ListSet(slave_list) |->
                          slave_deactivate(
                            [node[s] EXCEPT !.reactivate_instances = reactivate_instances,
                                            !.reactivate_slave = reactivate],
                            f[s][1], f[s][2], f[s][3])]
            IN /\ \A s \in ListSet(slave_list) : InBounds(res[s].n)
               /\ node' = [s \in Names |->
                             IF s \in ListSet(slave_list)
                               THEN AfterBulkDeactivate(res[s]) ELSE node[s]]
               /\ slave_list' = SelectSeq(slave_list, LAMBDA s : res[s].ptr)
               /\ last' = [op |-> "slave_deactivate_all", s |-> "",
                           ret |-> ToString(Len(slave_list))]
               /\ bulk' = [phase |-> "quiesced", before |-> ActiveNames,
                           outstanding |-> bulk.outstanding + 1]
  /\ FaultUnchanged

\* f[s]: the launcher's answer to the slave_activate call on slave s.
SlaveActivateAll(f) ==
  /\ deactivate_all_refcnt > -MaxUnder
  /\ deactivate_all_refcnt' = deactivate_all_refcnt - 1
  /\ bulk' = [phase |-> IF bulk.outstanding > 1 THEN bulk.phase
                        ELSE IF bulk.outstanding = 1 /\ bulk.phase = "quiesced"
                          THEN "released" ELSE "idle",
              before |-> IF bulk.outstanding >= 1 /\ bulk.phase = "quiesced"
                           THEN bulk.before ELSE {},
              outstanding |-> IF bulk.outstanding > 0 THEN bulk.outstanding - 1 ELSE 0]
  /\ IF deactivate_all_refcnt - 1 > 0
       THEN /\ UNCHANGED <<node, slave_list>>
            /\ last' = [op |-> "slave_activate_all", s |-> "", ret |-> "0"]
       ELSE LET res == [s \in ListSet(slave_list) |-> slave_activate(node[s], f[s])]
            IN /\ \A s \in ListSet(slave_list) : InBounds(res[s].n)
               /\ node' = [s \in Names |->
                             IF s \in ListSet(slave_list) THEN res[s].n ELSE node[s]]
               /\ UNCHANGED slave_list
               /\ last' = [op |-> "slave_activate_all", s |-> "",
                           ret |-> ToString(Len(slave_list))]
  /\ FaultUnchanged

(* ------------------------------------------------------------------ *)
(* fault_manager.c                                                    *)
(* ------------------------------------------------------------------ *)
Packages == {"foo", "gone"}          \* package names a slave can report
Installed == {"foo"}                 \* the names package_find knows
CallSites == {<<"foo", "f.c", "do_work">>, <<"gone", "x.c", "stale">>}
MaxCalls == 3                        \* cap on the length of call_list
MaxTime == 3                         \* cap on the timestamps handed out
MaxMark == 3                         \* cap on fault_mark_count

\* The first line of SLAVE_LOG_PATH/slave.<pid> as fgets returns it, cut into the
\* pieces check_log_file looks at; <<>> when there is no file or no line.
LogLines ==
  {<<>>} \cup
  {<<"liblive-", p, ".so">> : p \in {"foo", "gone"}} \cup
  {<<"liblive-", "foo", ".so", "\n">>, <<"liblive-", ".so">>, <<"core-", "foo", ".so">>}

NoPkg == "(null)"

\* check_log_file: the package named between "liblive-" and a trailing ".so"; the
\* three characters compared with ".so" are the last three of the line as read.
check_log_file(line) ==
  IF line = <<>> THEN NoPkg
  ELSE IF line[1] # "liblive-" THEN NoPkg
  ELSE IF Len(line) < 3 \/ line[Len(line)] # ".so" THEN NoPkg
  ELSE line[2]

package_find(pkgname) == pkgname \in Installed

\* The records of call_list that are not slave s's.
RECURSIVE DropSlave(_, _)
DropSlave(l, s) ==
  IF l = <<>> THEN <<>>
  ELSE IF Head(l).slave = s THEN DropSlave(Tail(l), s)
  ELSE <<Head(l)>> \o DropSlave(Tail(l), s)

\* The last step of fault_check_pkgs: the reverse walk over call_list. A record of
\* slave s whose package package_find does not know is skipped and stays.
RECURSIVE WalkCalls(_, _)
WalkCalls(l, s) ==
  IF l = <<>> THEN [list |-> <<>>, hits |-> <<>>]
  ELSE LET r == l[Len(l)]
           w == WalkCalls(SubSeq(l, 1, Len(l) - 1), s)
       IN IF r.slave = s /\ package_find(r.pkgname)
            THEN [list |-> w.list, hits |-> <<r>> \o w.hits]
            ELSE [list |-> Append(w.list, r), hits |-> w.hits]

\* fault_check_pkgs that recounts the records left instead of clearing the count.
fault_check_pkgs_recount(l, s, line, secpkg) ==
  IF check_log_file(line) # NoPkg /\ package_find(check_log_file(line)) THEN
    [list |-> DropSlave(l, s), count |-> Len(DropSlave(l, s)), path |-> "log",
     bcast |-> <<check_log_file(line), "", "">>]
  ELSE IF secpkg # NoPkg /\ package_find(secpkg) THEN
    [list |-> DropSlave(l, s), count |-> Len(DropSlave(l, s)), path |-> "secured",
     bcast |-> <<secpkg, "", "">>]
  ELSE LET w == WalkCalls(l, s)
       IN [list |-> w.list, count |-> Len(w.list),
           path |-> IF w.hits = <<>> THEN "none" ELSE "calls",
           bcast |-> IF w.hits = <<>> THEN <<>>
                     ELSE <<w.hits[1].pkgname, w.hits[1].filename, w.hits[1].func>>]

\* fault_check_pkgs that empties call_list once the crash log or the secured package
\* names the culprit, the records of the other slaves included.
fault_check_pkgs_sweep(l, s, line, secpkg) ==
  IF check_log_file(line) # NoPkg /\ package_find(check_log_file(line)) THEN
    [list |-> <<>>, count |-> 0, path |-> "log",
     bcast |-> <<check_log_file(line), "", "">>]
  ELSE IF secpkg # NoPkg /\ package_find(secpkg) THEN
    [list |-> <<>>, count |-> 0, path |-> "secured",
     bcast |-> <<secpkg, "", "">>]
  ELSE LET w == WalkCalls(l, s)
       IN [list |-> w.list, count |-> 0,
           path |-> IF w.hits = <<>> THEN "none" ELSE "calls",
           bcast |-> IF w.hits = <<>> THEN <<>>
                     ELSE <<w.hits[1].pkgname, w.hits[1].filename, w.hits[1].func>>]

\* fault_check_pkgs(slave). line: the slave's crash log; secpkg: the answer of
\* package_find_by_secured_slave. path names the step that attributed the fault;
\* bcast is the fault_package broadcast, <<>> when none is sent.
fault_check_pkgs(l, s, line, secpkg) ==
  IF check_log_file(line) # NoPkg /\ package_find(check_log_file(line)) THEN
    [list |-> DropSlave(l, s), count |-> 0, path |-> "log",
     bcast |-> <<check_log_file(line), "", "">>]
  ELSE IF secpkg # NoPkg /\ package_find(secpkg) THEN
    [list |-> DropSlave(l, s), count |-> 0, path |-> "secured",
     bcast |-> <<secpkg, "", "">>]
  ELSE LET w == WalkCalls(l, s)
       IN [list |-> w.list, count |-> 0,
           path |-> IF w.hits = <<>> THEN "none" ELSE "calls",
           bcast |-> IF w.hits = <<>> THEN <<>>
                     ELSE <<w.hits[1].pkgname, w.hits[1].filename, w.hits[1].func>>]

\* What package_find_by_secured_slave can answer for a record.
SecuredPkgs(n) == IF n.secured THEN {NoPkg} \cup Packages ELSE {NoPkg}

\* The record fault_func_call appends; t is util_timestamp().
fault_func_call(l, s, site, t) ==
  Append(l, [slave |-> s, timestamp |-> t, pkgname |-> site[1], filename |-> site[2],
             func |-> site[3]])

\* The comparison of fault_func_ret: slave, package, file and function.
SameCall(r, s, site) ==
  r.slave = s /\ r.pkgname = site[1] /\ r.filename = site[2] /\ r.func = site[3]

RECURSIVE RemoveFirstCall(_, _, _)
RemoveFirstCall(l, s, site) ==
  IF l = <<>> THEN <<>>
  ELSE IF SameCall(Head(l), s, site) THEN Tail(l)
  ELSE <<Head(l)>> \o RemoveFirstCall(Tail(l), s, site)

\* fault_func_ret that goes on after the first match and removes every match.
fault_func_ret_all(l, s, site) ==
  IF \E i \in 1..Len(l) : SameCall(l[i], s, site)
    THEN [list |-> SelectSeq(l, LAMBDA r : ~SameCall(r, s, site)), ret |-> "SUCCESS"]
    ELSE [list |-> l, ret |-> "NOT_EXIST"]

\* fault_func_ret that searches from the tail and removes the newest match.
fault_func_ret_newest(l, s, site) ==
  IF \E i \in 1..Len(l) : SameCall(l[i], s, site)
    THEN LET k == CHOOSE i \in 1..Len(l) :
                    /\ SameCall(l[i], s, site)
                    /\ \A j \in (i + 1)..Len(l) : ~SameCall(l[j], s, site)
         IN [list |-> SubSeq(l, 1, k - 1) \o SubSeq(l, k + 1, Len(l)), ret |-> "SUCCESS"]
    ELSE [list |-> l, ret |-> "NOT_EXIST"]

fault_func_ret(l, s, site) ==
  IF \E i \in 1..Len(l) : SameCall(l[i], s, site)
    THEN [list |-> RemoveFirstCall(l, s, site), ret |-> "SUCCESS"]
    ELSE [list |-> l, ret |-> "NOT_EXIST"]

FaultFuncCall(s, site) ==
  /\ find_slave(s)
  /\ Len(call_list) < MaxCalls
  /\ fault_mark_count < MaxMark
  /\ now < MaxTime
  /\ call_list' = fault_func_call(call_list, s, site, now)
  /\ fault_mark_count' = fault_mark_count + 1
  /\ now' = now + 1
  /\ last' = [op |-> "fault_func_call", s |-> s, ret |-> "SUCCESS"]
  /\ call_mark' = [list |-> call_list, count |-> fault_mark_count, s |-> s,
                   site |-> site, returned |-> FALSE]
  /\ UNCHANGED <<node, slave_list, deactivate_all_refcnt>>
  /\ OtherOp

FaultFuncRet(s, site) ==
  /\ find_slave(s)
  /\ LET r == fault_func_ret(call_list, s, site)
     IN /\ call_list' = r.list
        /\ fault_mark_count' = IF r.ret = "SUCCESS" THEN fault_mark_count - 1
                                                    ELSE fault_mark_count
        /\ last' = [op |-> "fault_func_ret", s |-> s, ret |-> r.ret, site |-> site]
  /\ call_mark' = IF last.op = "fault_func_call" /\ call_mark.s = s /\ call_mark.site = site
                    THEN [call_mark EXCEPT !.returned = TRUE] ELSE NoMark
  /\ UNCHANGED <<node, slave_list, deactivate_all_refcnt, now>>
  /\ OtherOp

\* set_ok: whether package_set_fault_info succeeds, which is called only for a
\* package that package_find knows.
FaultInfoSet(s, pkgname, set_ok) ==
  /\ find_slave(s)
  /\ package_find(pkgname) \/ set_ok
  /\ fault_mark_count < MaxMark
  /\ IF ~package_find(pkgname) THEN
       /\ last' = [op |-> "fault_info_set", s |-> s, ret |-> "NOT_EXIST"]
       /\ UNCHANGED fault_mark_count
     ELSE IF ~set_ok THEN
       /\ last' = [op |-> "fault_info_set", s |-> s, ret |-> "FAULT"]
       /\ UNCHANGED fault_mark_count
     ELSE
       /\ last' = [op |-> "fault_info_set", s |-> s, ret |-> "SUCCESS"]
       /\ fault_mark_count' = fault_mark_count + 1
  /\ call_mark' = NoMark
  /\ UNCHANGED <<node, slave_list, deactivate_all_refcnt, call_list, now>>
  /\ OtherOp

\* last keeps the crash log and the secured package the call found, and the broadcast
\* it made. package_find_by_secured_slave is asked only when the crash log names no
\* installed package.
FaultCheckPkgs(s, line, secpkg) ==
  /\ find_slave(s)
  /\ secpkg \in SecuredPkgs(node[s])
  /\ (check_log_file(line) # NoPkg /\ package_find(check_log_file(line))) => secpkg = NoPkg
  /\ LET c == fault_check_pkgs(call_list, s, line, secpkg)
     IN /\ call_list' = c.list
        /\ fault_mark_count' = c.count
        /\ last' = [op |-> "fault_check_pkgs", s |-> s, ret |-> c.path,
                    line |-> line, secpkg |-> secpkg, bcast |-> c.bcast]
  /\ call_mark' = NoMark
  /\ UNCHANGED <<node, slave_list, deactivate_all_refcnt, now>>
  /\ OtherOp

\* A slave crashed, or stopped answering.
SlaveDeactivatedByFault(s, fast, votes, aul, line, secpkg) ==
  /\ find_slave(s)
  /\ node[s].pid = PidProc
  /\ LET r == slave_deactivated_by_fault(node[s], fast, votes, aul)
         c == fault_check_pkgs(call_list, s, line, secpkg)
     IN /\ Store(s, r.n)
        /\ IF slave_is_activated(node[s])
             THEN call_list' = c.list /\ fault_mark_count' = c.count
             ELSE UNCHANGED <<call_list, fault_mark_count>>
        /\ last' = [op |-> "slave_deactivated_by_fault", s |-> s, ret |-> PtrRet(r),
                    fast |-> fast]
  /\ call_mark' = NoMark
  /\ UNCHANGED <<deactivate_all_refcnt, now>>
  /\ OtherOp

MainNames == {"s1"}

\* The whole life of one record, under every answer of the launcher, of
\* aul_terminate_pid, of the callbacks and of the slave.
Next ==
  \/ \E s \in MainNames, b \in BOOLEAN : SlaveCreate(s, b, DEFAULT_ABI, 0)
  \/ \E s \in MainNames, aul \in AulResults : SlaveActivate(s, aul)
  \/ \E s \in MainNames, pid \in HelloPids, x \in BOOLEAN : SlaveActivated(s, pid, x)
  \/ \E s \in MainNames, i \in DeactivateInputs : SlaveDeactivate(s, i[1], i[2], i[3])
  \/ \E s \in MainNames, i \in ExitInputs : SlaveDeactivated(s, i[1], i[2])
  \/ \E s \in MainNames, fast \in BOOLEAN, i \in ExitInputs :
       SlaveDeactivatedByFault(s, fast, i[1], i[2], <<>>, NoPkg)
  \/ \E s \in MainNames : SlaveLoadInstance(s)
  \/ \E s \in MainNames, i \in DeactivateInputs : SlaveUnloadInstance(s, i[1], i[2], i[3])
  \/ \E s \in MainNames : SlavePause(s)
  \/ \E s \in MainNames : SlaveResume(s)
  \/ \E s \in MainNames, a \in Acks : PauseAck(s, a)
  \/ \E s \in MainNames, a \in Acks : ResumeAck(s, a)
  \/ \E s \in MainNames, i \in DeactivateInputs : TtlTimerFire(s, i[1], i[2], i[3])
  \/ \E s \in MainNames, i \in ExitInputs : ActivateTimerFire(s, i[1], i[2])
  \/ \E s \in MainNames, aul \in AulResults : RelaunchTimerFire(s, aul)

Spec == Init /\ [][Next]_vars

\* The launch of one slave: launcher answers of every kind, a hello that may or may
\* not come, the exit notice, and the timers, which the main loop fires as long as
\* they are armed.
LaunchNext ==
  \/ \E s \in MainNames, b \in BOOLEAN : SlaveCreate(s, b, DEFAULT_ABI, 0)
  \/ \E s \in MainNames : SlaveLoadInstance(s)
  \/ \E s \in MainNames, aul \in AulResults : SlaveActivate(s, aul)
  \/ \E s \in MainNames, pid \in HelloPids, x \in BOOLEAN : SlaveActivated(s, pid, x)
  \/ \E s \in MainNames, i \in ExitInputs : SlaveDeactivated(s, i[1], i[2])
  \/ \E s \in MainNames, i \in DeactivateInputs : TtlTimerFire(s, i[1], i[2], i[3])
  \/ \E s \in MainNames, i \in ExitInputs : ActivateTimerFire(s, i[1], i[2])
  \/ \E s \in MainNames, aul \in AulResults : RelaunchTimerFire(s, aul)

LaunchSpec ==
  /\ Init /\ [][LaunchNext]_vars
  /\ \A s \in MainNames :
       /\ WF_vars(\E i \in DeactivateInputs : TtlTimerFire(s, i[1], i[2], i[3]))
       /\ WF_vars(\E i \in ExitInputs : ActivateTimerFire(s, i[1], i[2]))
       /\ WF_vars(\E aul \in AulResults : RelaunchTimerFire(s, aul))

\* The same, with slave_set_pid also called outside the hello handshake.
PidNext ==
  \/ Next
  \/ \E s \in MainNames, pid \in HelloPids : SlaveSetPid(s, pid)

PidSpec == Init /\ [][PidNext]_vars

\* What the bulk operations get from outside for each slave.
BulkDeactivateInputs == {<<"ok", 0, "OK">>, <<"fail", 0, "OK">>, <<"fail", 1, "OK">>}
BulkExitInputs == {<<0, "OK">>, <<1, "OK">>}

\* Two slaves under the bulk operations, with no crash, no timer expiry and no
\* pause / resume traffic.
BulkNext ==
  \/ \E s \in Names : SlaveCreate(s, FALSE, DEFAULT_ABI, 0)
  \/ \E s \in Names : SlaveLoadInstance(s)
  \/ \E s \in Names : SlaveActivate(s, "OK")
  \/ \E s \in Names, pid \in HelloPids : SlaveActivated(s, pid, FALSE)
  \/ \E s \in Names, i \in BulkExitInputs : SlaveDeactivated(s, i[1], i[2])
  \/ \E x \in BOOLEAN, f \in [Names -> BulkDeactivateInputs] :
       SlaveDeactivateAll(x, x, f)
  \/ \E f \in [Names -> {"OK"}] : SlaveActivateAll(f)

BulkSpec == Init /\ [][BulkNext]_vars

Networks == 0..1

\* The settings slaves are created with: <<is_secured, abi, network>>.
CreateInputs ==
  {<<TRUE, abi, 0>> : abi \in {"C", "html"}} \cup
  {<<FALSE, abi, net>> : abi \in {"C", "html"}, net \in Networks}

\* Two slaves, created in either order, that take packages, with lookups in between;
\* one of them also takes instances, is launched and is told to stop.
FindNext ==
  \/ \E s \in Names, c \in CreateInputs : SlaveCreate(s, c[1], c[2], c[3])
  \/ \E s \in Names : SlaveLoadPackage(s)
  \/ \E s \in MainNames : SlaveLoadInstance(s)
  \/ \E s \in MainNames : SlaveActivate(s, "OK")
  \/ \E s \in MainNames : SlaveDeactivate(s, "ok", 0, "OK")
  \/ \E abi \in Abis, b \in BOOLEAN, net \in Networks : SlaveFindAvailable(abi, b, net)

FindSpec == Init /\ [][FindNext]_vars

\* Two slaves that are given packages only when just found or just made, and release
\* them; a slave nobody launched is dropped by slave_deactivate and can be made anew.
PkgNext ==
  \/ \E s \in Names, c \in CreateInputs : SlaveCreate(s, c[1], c[2], c[3])
  \/ \E abi \in Abis, b \in BOOLEAN, net \in Networks : SlaveFindAvailable(abi, b, net)
  \/ \E s \in Names : AssignPackage(s)
  \/ \E s \in Names : SlaveUnloadPackage(s)
  \/ \E s \in Names : SlaveDeactivate(s, "ok", 0, "OK")

PkgSpec == Init /\ [][PkgNext]_vars

\* One slave with deactivate callbacks that may let go of a reference, launched and
\* taken down by its exit notice.
ChainNext ==
  \/ \E s \in MainNames : SlaveCreate(s, FALSE, DEFAULT_ABI, 0)
  \/ \E s \in MainNames : SlaveEventCallbackAdd(s, "DEACTIVATE")
  \/ \E s \in MainNames : SlaveLoadInstance(s)
  \/ \E s \in MainNames : SlaveActivate(s, "OK")
  \/ \E s \in MainNames, x \in BOOLEAN : SlaveActivated(s, PidProc, x)
  \/ \E s \in MainNames :
       \E ret \in [ListSet(node[s].event_list["DEACTIVATE"]) -> CbReturns],
          drop \in [ListSet(node[s].event_list["DEACTIVATE"]) -> BOOLEAN],
          aul \in AulResults : SlaveDeactivatedCbs(s, ret, drop, aul)

ChainSpec == Init /\ [][ChainNext]_vars

\* One slave whose callbacks are registered and run, for every event kind and every
\* combination of return values.
EventNext ==
  \/ \E s \in MainNames : SlaveCreate(s, FALSE, DEFAULT_ABI, 0)
  \/ \E s \in MainNames, e \in EventKinds : SlaveEventCallbackAdd(s, e)
  \/ \E s \in MainNames, e \in EventKinds :
       \E ret \in [ListSet(node[s].event_list[e]) -> CbReturns] : InvokeEvent(s, e, ret)

EventSpec == Init /\ [][EventNext]_vars

\* The fault manager under calls, returns, fault marks and attributions for two
\* slaves: one that may be secured and one that is not.
FaultNext ==
  \/ \E s \in Names, b \in BOOLEAN :
       (b => s \in MainNames) /\ SlaveCreate(s, b, DEFAULT_ABI, 0)
  \/ \E s \in Names, site \in CallSites : FaultFuncCall(s, site)
  \/ \E s \in Names, site \in CallSites : FaultFuncRet(s, site)
  \/ \E s \in Names, p \in Packages, ok \in BOOLEAN : FaultInfoSet(s, p, ok)
  \/ \E s \in Names, line \in LogLines, secpkg \in {NoPkg} \cup Packages :
       FaultCheckPkgs(s, line, secpkg)

FaultSpec == Init /\ [][FaultNext]_vars

(* ------------------------------------------------------------------ *)
(* Properties                                                         *)
(* ------------------------------------------------------------------ *)
Registered == ListSet(slave_list)

\* C1: every slave record in the registry has refcount >= 1.
C1_RefcountPositive ==
  \A s \in Registered : node[s].refcnt >= 1

\* C2: every slave whose state is Terminated has pid none and no ttl, activate or
\* relaunch timer.
C2_TerminatedClean ==
  \A s \in Registered :
    node[s].state = "Terminated" =>
      /\ node[s].pid = NoPid
      /\ ~node[s].ttl_timer /\ ~node[s].activate_timer /\ ~node[s].relaunch_timer

\* C3: every secured slave whose state is Resumed or Paused has its ttl timer armed.
C3_SecuredTtlArmed ==
  \A s \in Registered :
    (node[s].secured /\ node[s].state \in {"Resumed", "Paused"}) => node[s].ttl_timer

\* C4: when fault_check_pkgs(S) has returned, call_list holds no record of slave S.
C4_RecordsConsumed ==
  last.op = "fault_check_pkgs" =>
    \A i \in 1..Len(call_list) : call_list[i].slave # last.s

\* C5: when fault_check_pkgs has returned, on whichever path, fault_mark_count is 0.
C5_MarkCountReset ==
  last.op = "fault_check_pkgs" => fault_mark_count = 0

\* fault_check_pkgs attributed a fault from the call list and left records of another
\* slave behind.
C5_Witness ==
  /\ last.op = "fault_check_pkgs"
  /\ last.ret = "calls"
  /\ call_list # <<>>

\* C6 as stated: fault_func_call(s,p,f,g) directly followed by fault_func_ret(s,p,f,g)
\* leaves call_list (same records, same order) and fault_mark_count as they were.
C6_RoundTripExact ==
  call_mark.returned =>
    (call_list = call_mark.list /\ fault_mark_count = call_mark.count)

\* How many records of the list carry the slave, package, file and function of r.
CallCount(l, r) ==
  Cardinality({i \in 1..Len(l) : SameCall(l[i], r.slave, <<r.pkgname, r.filename, r.func>>)})

\* C6, amended: the round trip restores fault_mark_count and, for every (slave,
\* package, file, function), the number of records carrying it; it restores call_list
\* itself when the list held no record with the call's four values before the call.
C6_RoundTripRecords ==
  call_mark.returned =>
    /\ fault_mark_count = call_mark.count
    /\ Len(call_list) = Len(call_mark.list)
    /\ \A i \in 1..Len(call_list) :
         CallCount(call_list, call_list[i]) = CallCount(call_mark.list, call_list[i])
    /\ (\A i \in 1..Len(call_mark.list) :
          ~SameCall(call_mark.list[i], call_mark.s, call_mark.site))
       => call_list = call_mark.list

\* A round trip over a list that already held a record with the same four values.
C6_Witness ==
  /\ call_mark.returned
  /\ \E i \in 1..Len(call_mark.list) :
       SameCall(call_mark.list[i], call_mark.s, call_mark.site)
  /\ call_list # call_mark.list

\* No registered slave still waits for its hello or for its exit notice.
Quiet ==
  \A s \in Registered :
    /\ ~node[s].hello
    /\ ~(node[s].state = "RequestedTerminate" /\ node[s].pid = PidProc)

\* C7 as stated: after slave_deactivate_all and the slave_activate_all that releases
\* it, once the pending exit notices and hellos are in, the active slaves are the ones
\* that were active before the slave_deactivate_all.
C7_RoundTrip ==
  (bulk.phase = "released" /\ Quiet) => ActiveNames = bulk.before

\* C7, amended: on return from the slave_activate_all that releases a
\* slave_deactivate_all, every registered slave, active before or not, is active, or
\* still has a pid and, if it is terminating, is marked for relaunch.
C7_ReleaseActivatesAll ==
  (last.op = "slave_activate_all" /\ bulk.phase = "released") =>
    \A s \in Registered :
      \/ slave_is_activated(node[s])
      \/ /\ node[s].pid # NoPid
         /\ node[s].state = "RequestedTerminate" => node[s].reactivate_slave

\* The release found one slave terminating, which it marked, and launched another that
\* was not active before the quiesce.
C7_Witness ==
  /\ last.op = "slave_activate_all"
  /\ bulk.phase = "released"
  /\ \E s \in Registered, u \in Registered :
       /\ s \in bulk.before
       /\ node[s].state = "RequestedTerminate" /\ node[s].reactivate_slave
       /\ u \notin bulk.before
       /\ node[u].state = "RequestedLaunch"

\* C8: a slave_deactivate_all made while an earlier one is unreleased changes no slave
\* and returns 0, and a slave_activate_all that does not release the last outstanding
\* slave_deactivate_all activates nothing.
C8_BulkRefcounted ==
  [][/\ (last'.op = "slave_deactivate_all" /\ bulk.outstanding > 0)
          => (node' = node /\ slave_list' = slave_list /\ last'.ret = "0")
     /\ (last'.op = "slave_activate_all" /\ bulk.outstanding > 1)
          => (node' = node /\ slave_list' = slave_list /\ last'.ret = "0")]_vars

NoDuplicateNames ==
  \A i \in 1..Len(slave_list), j \in 1..Len(slave_list) :
    i # j => slave_list[i] # slave_list[j]

\* C9: slave_create with a name already in the registry returns the existing record
\* and changes neither the registry nor any record, and the registry never holds a
\* name twice.
C9_CreateIdempotent ==
  /\ []NoDuplicateNames
  /\ [][(last'.op = "slave_create" /\ find_slave(last'.s))
          => (node' = node /\ slave_list' = slave_list /\ last'.ret = "ptr")]_vars

\* slave_create has just been called with the name of a record that is in use.
C9_Witness ==
  /\ last.op = "slave_create"
  /\ \E s \in Registered :
       /\ last.s = s
       /\ node[s].state = "Resumed"
       /\ node[s].refcnt = 2

\* C10: slave_resume on a Resumed slave, and slave_pause on a Paused slave, return
\* SUCCESS, queue no request and leave the record as it was.
C10_ResumePauseNoop ==
  [][/\ (last'.op = "slave_resume" /\ node[last'.s].state = "Resumed")
          => (last'.ret = "SUCCESS" /\ node' = node /\ slave_list' = slave_list)
     /\ (last'.op = "slave_pause" /\ node[last'.s].state = "Paused")
          => (last'.ret = "SUCCESS" /\ node' = node /\ slave_list' = slave_list)]_vars

\* slave_resume has just returned on a slave that is Resumed.
C10_Witness ==
  /\ last.op = "slave_resume"
  /\ last.ret = "SUCCESS"
  /\ \E s \in Registered : last.s = s /\ node[s].state = "Resumed"

\* What the selection rule asks of a record for the request (abi, secured, network).
Selectable(n, abi, secured, network) ==
  /\ n.secured = secured
  /\ ~(n.state = "RequestedTerminate" /\ n.loaded_instance = 0)
  /\ Lower(n.abi) = Lower(abi)
  /\ IF n.secured THEN n.loaded_package = 0
     ELSE /\ n.network = network
          /\ (Lower(abi) # Lower(DEFAULT_ABI) \/ n.loaded_package < SLAVE_MAX_LOAD)

\* C11: slave_find_available(abi, secured, network) returns the first slave in
\* insertion order that has the requested security, is not (RequestedTerminate with no
\* instance), has the requested ABI ignoring case and, if secured, has no package,
\* otherwise has the requested network and, for the default ABI, fewer than
\* SLAVE_MAX_LOAD packages; it returns none exactly when no slave qualifies.
C11_FindAvailable ==
  last.op = "slave_find_available" =>
    LET ok == {i \in 1..Len(slave_list) :
                 Selectable(node[slave_list[i]], last.abi, last.secured, last.network)}
    IN /\ (ok = {}) <=> (last.ret = "NULL")
       /\ ok # {} => /\ last.ret = slave_list[CHOOSE i \in ok : \A j \in ok : i <= j]
                     /\ ~(node[last.ret].state = "RequestedTerminate"
                          /\ node[last.ret].loaded_instance = 0)

\* A lookup passed over the first slave, which is terminating with no instance and
\* otherwise fits, and returned the second.
C11_Witness ==
  /\ last.op = "slave_find_available"
  /\ Len(slave_list) = 2
  /\ last.ret = slave_list[2]
  /\ node[slave_list[1]].state = "RequestedTerminate"
  /\ node[slave_list[1]].loaded_instance = 0
  /\ node[slave_list[1]].secured = last.secured
  /\ node[slave_list[1]].abi = last.abi
  /\ node[slave_list[1]].network = last.network
  /\ node[slave_list[1]].loaded_package = 0

\* C12: within one launch sequence the launcher is attempted at most
\* SLAVE_RELAUNCH_COUNT times, and once SLAVE_RELAUNCH_COUNT attempts have failed with
\* a retryable code no further relaunch is pending.
C12_RelaunchBudget ==
  \A s \in Registered :
    /\ node[s].launch_tries <= SLAVE_RELAUNCH_COUNT
    /\ node[s].retry_fails >= SLAVE_RELAUNCH_COUNT => ~node[s].relaunch_timer

\* C13: a slave_deactivated_by_fault on an active slave with instances that comes less
\* than MINIMUM_REACTIVATION_TIME after the last activation adds one to
\* critical_fault_count, which accumulates over such crashes; the crash that brings
\* the count to SLAVE_MAX_LOAD clears both reactivation flags and is followed by no
\* launch.
C13_FastCrashBudget ==
  [][\A s \in Names :
       (/\ last'.op = "slave_deactivated_by_fault"
        /\ last'.s = s
        /\ last'.fast
        /\ slave_is_activated(node[s])
        /\ node[s].loaded_instance > 0)
       => IF node[s].critical_fault_count + 1 >= SLAVE_MAX_LOAD
            THEN /\ ~node'[s].reactivate_slave
                 /\ ~node'[s].reactivate_instances
                 /\ node'[s].state = "Terminated"
            ELSE node'[s].critical_fault_count = node[s].critical_fault_count + 1]_vars

\* C14: slave_activate on a slave that has a pid, or that is in RequestedLaunch,
\* returns ALREADY and leaves the record and the registry as they were, except that it
\* may set reactivate_slave on a slave in RequestedTerminate.
C14_ActivateIdempotent ==
  [][\A s \in Names :
       (/\ last'.op = "slave_activate"
        /\ last'.s = s
        /\ (node[s].pid # NoPid \/ node[s].state = "RequestedLaunch"))
       => /\ last'.ret = "ALREADY"
          /\ slave_list' = slave_list
          /\ \/ node' = node
             \/ /\ node[s].state = "RequestedTerminate"
                /\ node' = [node EXCEPT ![s].reactivate_slave = TRUE]]_vars

\* slave_activate has just returned ALREADY on a slave in RequestedLaunch that has no
\* pid: its launcher call failed with a retryable code and a relaunch is pending.
C14_Witness ==
  /\ last.op = "slave_activate"
  /\ last.ret = "ALREADY"
  /\ \E s \in Registered :
       /\ last.s = s
       /\ node[s].state = "RequestedLaunch"
       /\ node[s].pid = NoPid
       /\ node[s].relaunch_timer

NoTimer(n) == ~n.ttl_timer /\ ~n.activate_timer /\ ~n.relaunch_timer

C17_ExitNotice ==
  [][\A s \in Names :
       (last'.op = "slave_deactivated" /\ last'.s = s)
       => IF last'.votes > 0 /\ node[s].reactivate_slave
            THEN /\ InList(slave_list', s)
                 /\ node'[s].state = "RequestedLaunch"
                 /\ node'[s].launch_tries = 1
                 /\ ~node'[s].ttl_timer
          ELSE IF node[s].loaded_instance = 0
            THEN node'[s].status = "free" /\ ~InList(slave_list', s)
          ELSE /\ InList(slave_list', s)
               /\ node'[s].state = "Terminated"
               /\ node'[s].pid = NoPid
               /\ NoTimer(node'[s])]_vars

\* C18: a record leaves the registry only by being destroyed, which takes pid none and
\* runs the delete callbacks first; a record whose refcount reaches zero while it has
\* a pid is not destroyed and stays in the registry.
C18_RemovedOnlyDestroyed ==
  [][\A s \in Names :
       (InList(slave_list, s) /\ ~InList(slave_list', s)) => node'[s].status = "free"]_vars

\* The package a crash log names: the text between "liblive-" and ".so" on its first
\* line, whether or not the line is terminated by a newline.
LogPackage(line) ==
  IF Len(line) >= 3 /\ line[1] = "liblive-" /\ line[3] = ".so"
       /\ (Len(line) = 3 \/ line[4] = "\n")
    THEN line[2] ELSE NoPkg

\* C19: fault_check_pkgs makes at most one broadcast, for the package the crash log
\* names if that package is known, otherwise for the package of a secured slave,
\* otherwise from the call list; the first two carry an empty file and function.
C19_AttributionPriority ==
  last.op = "fault_check_pkgs" =>
    IF LogPackage(last.line) # NoPkg /\ package_find(LogPackage(last.line))
      THEN last.ret = "log" /\ last.bcast = <<LogPackage(last.line), "", "">>
    ELSE IF last.secpkg # NoPkg /\ package_find(last.secpkg)
      THEN last.ret = "secured" /\ last.bcast = <<last.secpkg, "", "">>
    ELSE last.ret \in {"calls", "none"}

\* The records of slave s in the list, oldest first.
CallsOf(l, s) == SelectSeq(l, LAMBDA r : r.slave = s)

\* C20: when neither the crash log nor the secured-slave rule attributes the fault,
\* fault_check_pkgs(S) broadcasts the package, file and function of the most recently
\* appended record of S and removes every record of S.
C20_LatestCallBlamed ==
  [][(last'.op = "fault_check_pkgs" /\ last'.ret \in {"calls", "none"}
        /\ CallsOf(call_list, last'.s) # <<>>)
      => LET mine == CallsOf(call_list, last'.s)
             r == mine[Len(mine)]
         IN /\ last'.bcast = <<r.pkgname, r.filename, r.func>>
            /\ CallsOf(call_list', last'.s) = <<>>
            /\ call_list' = DropSlave(call_list, last'.s)]_vars

\* C21: fault_func_ret(s,p,f,g) removes exactly one record, the first in append order
\* whose slave, package, file and function match, and takes one off fault_mark_count;
\* when no record matches it returns NOT_EXIST and changes neither.
C21_ReturnRemovesFirst ==
  [][last'.op = "fault_func_ret" =>
       LET hits == {i \in 1..Len(call_list) :
                      SameCall(call_list[i], last'.s, last'.site)}
       IN IF hits = {}
            THEN /\ last'.ret = "NOT_EXIST"
                 /\ call_list' = call_list
                 /\ fault_mark_count' = fault_mark_count
            ELSE LET k == CHOOSE i \in hits : \A j \in hits : i <= j
                 IN /\ last'.ret = "SUCCESS"
                    /\ call_list' = [i \in 1..(Len(call_list) - 1) |->
                                       IF i < k THEN call_list[i] ELSE call_list[i + 1]]
                    /\ fault_mark_count' = fault_mark_count - 1]_vars

\* A return has removed the older of two records of the same call and left the newer.
C21_Witness ==
  /\ last.op = "fault_func_ret"
  /\ last.ret = "SUCCESS"
  /\ \E i \in 1..Len(call_list) :
       /\ SameCall(call_list[i], last.s, last.site)
       /\ call_list[i].timestamp > 0

\* The list holds its callbacks newest registration first.
NewestFirst(l) == \A i \in 1..Len(l), j \in 1..Len(l) : i < j => l[i] > l[j]

\* C22: the callbacks of every event kind are called most recently registered first,
\* each once per event; one that returns a negative value is taken off its list after
\* the call, and the others stay in the list in the order they had.
C22_CallbackOrder ==
  /\ [](\A s \in Registered, e \in EventKinds : NewestFirst(node[s].event_list[e]))
  /\ [][\A s \in Names :
          (last'.op = "invoke_cb" /\ last'.s = s)
          => /\ last'.called = node[s].event_list[last'.event]
             /\ NewestFirst(last'.called)
             /\ node'[s].event_list[last'.event] =
                  SelectSeq(node[s].event_list[last'.event],
                            LAMBDA c : last'.ret[c] >= 0)
             /\ \A e \in EventKinds \ {last'.event} :
                  node'[s].event_list[e] = node[s].event_list[e]
             /\ \A c \in 1..MaxEvents :
                  Cardinality({i \in 1..Len(last'.called) : last'.called[i] = c}) <= 1]_vars

\* An event has run three callbacks of one kind, and the middle one returned a
\* negative value and is gone from the list.
C22_Witness ==
  /\ last.op = "invoke_cb"
  /\ last.called = <<3, 2, 1>>
  /\ last.ret[2] < 0
  /\ node[last.s].event_list[last.event] = <<3, 1>>

\* C23: whenever the launcher returns a fatal result, in slave_activate or in a
\* relaunch-timer attempt, the fault handler runs at that point: fault_count goes up,
\* both reactivation flags are cleared and pid is none.
C23_FatalLaunchFaults ==
  [][\A s \in Names :
       (/\ last'.op \in {"slave_activate", "relaunch_timer_cb"} /\ last'.s = s
        /\ last'.launched /\ last'.aul = "FATAL")
       => /\ last'.fault_count = 1
          /\ ~node'[s].reactivate_slave /\ ~node'[s].reactivate_instances
          /\ node'[s].pid = NoPid]_vars

\* C24: a pause ack with status 0 takes a slave in RequestedPause to Paused and calls
\* the pause callbacks, a resume ack with status 0 takes one in RequestedResume to
\* Resumed and calls the resume callbacks; an ack with a non-zero status changes
\* nothing; an ack that arrives in RequestedTerminate changes no state and calls no
\* callback.
C24_Acks ==
  [][\A s \in Names :
       (last'.op \in {"pause_cb", "resume_cb"} /\ last'.s = s)
       => LET was == node[s].state
              isp == last'.op = "pause_cb"
              req == IF isp THEN "RequestedPause" ELSE "RequestedResume"
              done == IF isp THEN "Paused" ELSE "Resumed"
              kind == IF isp THEN "PAUSE" ELSE "RESUME"
              answered == IF isp THEN [node[s] EXCEPT !.rpc_pause = @ - 1]
                                 ELSE [node[s] EXCEPT !.rpc_resume = @ - 1]
          IN /\ (last'.ret = "ok" /\ was = req)
                  => node'[s].state = done /\ last'.invoked = {kind}
             /\ last'.ret = "refused" => node'[s] = answered /\ last'.invoked = {}
             /\ was = "RequestedTerminate"
                  => node'[s] = answered /\ last'.invoked = {}]_vars

\* A resume ack with status 0 has reached a slave that is being terminated: no
\* callback was called and the slave is terminating still.
C24_Witness ==
  /\ last.op = "resume_cb" /\ last.ret = "ok" /\ last.invoked = {}
  /\ node[last.s].state = "RequestedTerminate"

\* C25 as stated: when the TTL timer of a secured slave fires, ttl_timer is cleared,
\* reactivate_slave is cleared, reactivate_instances is set, and an active slave goes
\* to RequestedTerminate with a terminate signal sent and loaded_instance unchanged.
C25_TtlExpiry ==
  [][\A s \in Names :
       (last'.op = "slave_ttl_cb" /\ last'.s = s /\ node[s].secured)
       => /\ ~node'[s].ttl_timer
          /\ ~node'[s].reactivate_slave /\ node'[s].reactivate_instances
          /\ slave_is_activated(node[s])
               => /\ node'[s].state = "RequestedTerminate"
                  /\ last'.signal
                  /\ node'[s].loaded_instance = node[s].loaded_instance]_vars

\* C25, with the failed signal told apart: when the TTL timer of a secured slave
\* fires, ttl_timer is cleared and, on the record that remains, reactivate_slave is
\* clear and reactivate_instances set. An active slave whose terminate signal is
\* delivered, or which has no process to signal, is left in RequestedTerminate with
\* loaded_instance unchanged; when aul_terminate_pid fails the slave is treated as
\* deactivated at once: it is Terminated with pid none and loaded_instance
\* unchanged, or destroyed.
C25_TtlExpiryDelivered ==
  [][\A s \in Names :
       (last'.op = "slave_ttl_cb" /\ last'.s = s /\ node[s].secured)
       => /\ ~node'[s].ttl_timer
          /\ node'[s].status # "free"
               => ~node'[s].reactivate_slave /\ node'[s].reactivate_instances
          /\ slave_is_activated(node[s])
               => /\ last'.signal = HasProcess(node[s])
                  /\ IF last'.signal /\ last'.term = "fail"
                       THEN \/ node'[s].status = "free"
                            \/ /\ node'[s].state = "Terminated"
                               /\ node'[s].pid = NoPid
                               /\ node'[s].loaded_instance = node[s].loaded_instance
                       ELSE /\ node'[s].state = "RequestedTerminate"
                            /\ node'[s].loaded_instance = node[s].loaded_instance]_vars

\* The TTL timer of a secured slave holding an instance has fired, the signal went
\* out, and the slave is terminating with its instance kept and marked for recovery.
C25_Witness ==
  /\ last.op = "slave_ttl_cb" /\ last.signal /\ last.term = "ok"
  /\ node[last.s].secured
  /\ node[last.s].state = "RequestedTerminate"
  /\ node[last.s].reactivate_instances /\ ~node[last.s].reactivate_slave
  /\ node[last.s].loaded_instance > 0

\* C26: fault_is_occured() tells whether any plugin call is outstanding: whenever
\* call_list holds a record, of any slave, fault_mark_count is not zero.
C26_MarkCoversCalls == call_list # <<>> => fault_mark_count # 0

\* C27: a slave's ttl_timer is armed only if the slave is secured and active (its
\* state is neither RequestedTerminate nor Terminated); no ttl_timer stays armed once
\* slave_deactivate has moved the slave to RequestedTerminate.
C27_TtlOnlyWhenActive ==
  \A s \in Registered :
    node[s].ttl_timer => node[s].secured /\ slave_is_activated(node[s])

\* C28: when slave_unload_instance takes the last instance off an active slave, both
\* reactivation flags are cleared and the slave is deactivated: on return it is in
\* RequestedTerminate or Terminated, or destroyed. On a slave with no instance loaded
\* slave_unload_instance changes nothing.
C28_LastInstanceDeactivates ==
  [][\A s \in Names :
       (last'.op = "slave_unload_instance" /\ last'.s = s)
       => /\ node[s].loaded_instance = 0 => node'[s] = node[s] /\ slave_list' = slave_list
          /\ (node[s].loaded_instance = 1 /\ slave_is_activated(node[s]))
               => \/ node'[s].status = "free"
                  \/ /\ node'[s].loaded_instance = 0
                     /\ ~node'[s].reactivate_slave /\ ~node'[s].reactivate_instances
                     /\ node'[s].state \in {"RequestedTerminate", "Terminated"}]_vars

\* The last instance has been unloaded from a slave that was active, and the slave is
\* now being terminated.
C28_Witness ==
  /\ last.op = "slave_unload_instance" /\ last.active
  /\ node[last.s].status # "free"
  /\ node[last.s].loaded_instance = 0
  /\ node[last.s].state = "RequestedTerminate"

\* C29: a secured slave never holds more than one package, as long as packages are
\* given (slave_load_package) only to a slave just returned by slave_find_available
\* or just made by slave_create, and are released with slave_unload_package.
C29_SecuredOnePackage ==
  \A s \in Registered : node[s].secured => node[s].loaded_package <= 1

\* A secured slave holds a package, and a lookup for a secured slave of its abi has
\* just come back empty.
C29_Witness ==
  /\ last.op = "slave_find_available" /\ last.secured /\ last.ret = "NULL"
  /\ \E s \in Registered :
       /\ node[s].secured /\ node[s].loaded_package = 1
       /\ strcasecmp(node[s].abi, last.abi) = 0

\* C30: from RequestedTerminate a slave can only go to Terminated: no hello, pause or
\* resume ack, timer firing or slave_activate call takes it from RequestedTerminate to
\* any other state.
C30_TerminatingStays ==
  [][\A s \in Names :
       (/\ last'.op \in {"slave_activated", "pause_cb", "resume_cb", "slave_ttl_cb",
                         "activate_timer_cb", "relaunch_timer_cb", "slave_activate"}
        /\ last'.s = s
        /\ node[s].status # "free" /\ node[s].state = "RequestedTerminate")
       => \/ node'[s].status = "free"
          \/ node'[s].state \in {"RequestedTerminate", "Terminated"}]_vars

\* What a timer callback must not do before it has cleared its own handle.
Cascading == {"fault_cb", "signal", "slave_deactivate", "slave_deactivated"}

\* C31: in slave_ttl_cb, activate_timer_cb and relaunch_timer_cb, on every path that
\* cancels the timer, the handle of the firing timer is set to none before the callback
\* runs a fault callback, sends a terminate signal or calls slave_deactivate or
\* slave_deactivated.
C31_HandleClearedFirst ==
  [][(/\ last'.op \in {"slave_ttl_cb", "activate_timer_cb", "relaunch_timer_cb"}
      /\ last'.ret # "RENEW")
     => \A i \in 1..Len(last'.order) :
          last'.order[i] \in Cascading
          => \E j \in 1..(i - 1) : last'.order[j] = "handle"]_vars

\* C32: for each timer kind a slave has at most one armed timer, the one in its handle
\* field: no armed handle is overwritten by a newly created timer.
\* (The other callers of slave_activate reach it through slave_deactivated, which has
\* deleted all three timers by then.)
C32_NoOrphanedTimer ==
  last.op \in {"slave_activate", "slave_activated"} => last.orphaned = {}

\* C33: if a deactivate callback run by slave_deactivated brings the record to its
\* destruction, nothing touches the record afterwards: no further deactivate callback
\* is called on it and slave_deactivated does no unref, flag read or relaunch on it.
C33_DestroyedInChain ==
  (last.op = "slave_deactivated" /\ last.called # <<>>) => ~last.freed

\* C34: if the display monitor reports paused when the hello is delivered, then on
\* return from slave_activated a pause request has been sent and the state is
\* RequestedPause, ttl_timer is armed exactly if the slave is secured, and the
\* activate callbacks have been called.
C34_HelloWhilePaused ==
  [][\A s \in Names :
       (last'.op = "slave_activated" /\ last'.s = s /\ last'.xpaused)
       => /\ node'[s].state = "RequestedPause"
          /\ node'[s].rpc_pause = node[s].rpc_pause + 1
          /\ node'[s].ttl_timer = node'[s].secured
          /\ "ACTIVATE" \in last'.invoked]_vars

\* The hello of a secured slave has arrived while the display was paused: the pause
\* request is out and the TTL timer runs.
C34_Witness ==
  /\ last.op = "slave_activated" /\ last.xpaused
  /\ node[last.s].secured /\ node[last.s].ttl_timer
  /\ node[last.s].state = "RequestedPause" /\ node[last.s].rpc_pause = 1

\* C35: with armed timers firing, a slave that enters RequestedLaunch gets to Resumed
\* or Terminated, or is destroyed, whatever the launcher answers and whether or not a
\* hello comes; it does not stay in RequestedLaunch with no timer armed. (A hello
\* delivered while the display is paused counts as Resumed reached: slave_activated
\* sets Resumed and asks for the pause in the same call.)
C35_LaunchEnds ==
  \A s \in MainNames :
    (node[s].status # "free" /\ node[s].state = "RequestedLaunch")
      ~> \/ node[s].status = "free"
         \/ node[s].state \in {"Resumed", "Terminated"}
         \/ last.op = "slave_activated" /\ last.s = s

\* C36: the launcher is called for a slave only while its state is Terminated (first
\* launch, from slave_activate) or RequestedLaunch (retry, from the relaunch timer)
\* and its pid is none; never for a slave in RequestedTerminate, also not when
\* slave_deactivate was called with a relaunch timer pending. (pid none is read as
\* no process: between a retryable failure and the first retry the pid field holds
\* the launcher's error code.)
C36_LaunchOnlyWhenDown ==
  [][\A s \in Names :
       (last'.op \in {"slave_activate", "relaunch_timer_cb"} /\ last'.s = s
        /\ last'.launched)
       => /\ node[s].state =
               (IF last'.op = "slave_activate" THEN "Terminated" ELSE "RequestedLaunch")
          /\ ~HasProcess(node[s])]_vars

\* C37: a slave in Terminated leaves that state only through slave_activate: a pause
\* or resume ack delivered after the exit notice, with a status or without a packet,
\* leaves the state Terminated and calls no pause or resume callback.
C37_TerminatedIgnoresAcks ==
  [][\A s \in Names :
       (/\ last'.op \in {"pause_cb", "resume_cb"} /\ last'.s = s
        /\ node[s].status # "free" /\ node[s].state = "Terminated")
       => node'[s].state = "Terminated" /\ last'.invoked = {}]_vars

\* C38: fault_mark_count is never negative, under any interleaving of fault_func_call,
\* fault_func_ret, fault_info_set and fault_check_pkgs over several slaves.
C38_MarkCountNotNegative == fault_mark_count >= 0

\* C39: the count of outstanding bulk deactivations is never negative, whatever the
\* sequence of slave_deactivate_all and slave_activate_all calls, a slave_activate_all
\* with no slave_deactivate_all outstanding included.
C39_BulkRefcntNotNegative == deactivate_all_refcnt >= 0

\* The records of l that belong to a slave other than s, in the order of l.
OthersCalls(l, s) == SelectSeq(l, LAMBDA r : r.slave # s)

\* C40: fault_check_pkgs(S) leaves the call records of every other slave as they
\* were: on the crash-log, secured-package and call-mark paths alike, the records of
\* call_list whose slave is not S are the same, in the same order, before and after.
C40_OtherCallsKept ==
  [][last'.op = "fault_check_pkgs"
       => OthersCalls(call_list', last'.s) = OthersCalls(call_list, last'.s)]_vars

\* fault_check_pkgs has just attributed a crash from the crash log and removed the
\* crashed slave's records, and two records of another slave are still listed.
C40_Witness ==
  /\ last.op = "fault_check_pkgs"
  /\ last.ret = "log"
  /\ Len(call_list) = 2
  /\ call_list[1].timestamp < call_list[2].timestamp
  /\ \A i \in 1..2 : call_list[i].slave # last.s

====
